---- MODULE Spec2Model ----
(***************************************************************************)
(* Model of the event bridge of src/main.go: the informer callbacks        *)
(* (handleK8sEvent), the broadcast loop (handleMessages), the websocket    *)
(* sessions (handleWebSocket) and the actuator goroutines (deletePod,      *)
(* createPod).                                                             *)
(*                                                                         *)
(* wsClients is a Go map used by several goroutines with no lock.  Each    *)
(* map write (wsClients[ws] = true, delete(wsClients, ws)) is modelled as  *)
(* a region with a begin and an end step; a write that begins or ends      *)
(* while another write is in progress, and an iterator step taken while a  *)
(* write is in progress, is a data race: the Go runtime either detects it  *)
(* and kills the process (fatal error: concurrent map writes / concurrent  *)
(* map iteration and map write) or does not, and then both operations take *)
(* effect.  Both outcomes are kept.                                        *)
(***************************************************************************)
EXTENDS Integers, Sequences, FiniteSets, TLC

VARIABLES
    wsClients,    \* main.go:32  keys of the map wsClients
    inWrite,      \* tasks currently inside a write of the map wsClients
    fatal,        \* "" while the process runs, else the reason it died
    k8sClient,    \* main.go:29  "ok" or "nil"
    prodPc,       \* informer goroutine: "idle", or "send" (blocked at main.go:157)
    broadcast,    \* main.go:33  the message offered on the unbuffered channel
    evLeft,       \* events the informer may still deliver
    evlog,        \* history: the callbacks invoked, in order
    published,    \* history: the messages received from the channel broadcast
    hubPc,        \* handleMessages: "recv", "next", "write", "closed", "delete"
    msg,          \* handleMessages: local msg (index into published)
    cur,          \* handleMessages: local client
    visited,      \* sessions the running range loop has produced
    addedDuring,  \* sessions registered while the range loop runs
    regAtRecv,    \* history: wsClients when msg was received
    pc,           \* handleWebSocket of each session
    net,          \* each connection's peer side: "up", "down", "stall"
    closed,       \* connections closed by this process (client.Close())
    wrote,        \* history: per session, the messages written to it
    failedIn,     \* history: per session, the cycle its write failed in (0: none)
    since,        \* history: per session, the messages received from the channel
                  \* before its registration ended (-1: not registered yet)
    framesLeft,   \* inbound frames the peers may still send
    calls,        \* actuator goroutines started by go deletePod / go createPod
    pods,         \* backend: the pods of namespace "default", uid -> name
    mutations,    \* history: mutating calls issued to the backend
    logs,         \* history: log lines of the actuator
    frames,       \* history: the inbound frames decoded, in order
    now,          \* wall clock, in seconds
    envLeft       \* backend changes by others that may still happen

vars == <<wsClients, inWrite, fatal, k8sClient, prodPc, broadcast, evLeft, evlog,
          published, hubPc, msg, cur, visited, addedDuring, regAtRecv, pc, net,
          closed, wrote, failedIn, framesLeft, calls, pods, mutations, logs,
          now, envLeft, frames, since>>

hubVars  == <<hubPc, msg, cur, visited, addedDuring, regAtRecv>>
prodVars == <<prodPc, broadcast, evLeft, evlog>>
actVars  == <<calls, pods, mutations, logs, now, envLeft, frames>>

----------------------------------------------------------------------------
\* Bounds of the model.

Sessions  == {"s1", "s2"}
MaxEvents == 2
MaxFrames == 2
MaxEnv    == 1
MaxClock  == 1
MaxNameLen == 2

Hub == "hub"
NoClient == "none"

----------------------------------------------------------------------------
\* Data.

TargetNamespace == "default"
EventTypes == {"ADDED", "MODIFIED", "DELETED"}

\* Character codes of the names used: '-' 45, 'w' 119.
Alphabet == {45, 119}

\* Names of 1..MaxNameLen characters.
Names == UNION { [1..n -> Alphabet] : n \in 1..MaxNameLen }

\* The objects handed to the callbacks are pods (main.go:118, 122, 126).
\* The pod whose events the delivery side follows: "w-1" in the target namespace.
WatchedPods ==
    { [uid |-> "u1", name |-> <<119, 45, 49>>, ns |-> "default", phase |-> "Pending"] }

\* Pods of every name in two namespaces (the informer factory of main.go:113 is
\* not namespaced, so the callbacks see every namespace).
NamedPods ==
    { [uid |-> "u1", name |-> n, ns |-> ns, phase |-> "Running"] :
        n \in Names, ns \in {"default", "kube-system"} }

NoMsg == [Type |-> "none"]

RECURSIVE SumCodes(_)
SumCodes(name) ==
    IF name = <<>> THEN 0 ELSE Head(name) + SumCodes(Tail(name))

NameHash_Last(name) == name[Len(name)]
\* main.go:141-144  hash := 0; for _, c := range name { hash += int(c) }
NameHash(name) == SumCodes(name)

\* main.go:145-146, 154
PositionOf(name) ==
    LET hash == NameHash(name)
    IN  << (hash % 10) - 5, 0, ((hash \div 10) % 10) - 5 >>

Accepted_Any(k8sPod) == TRUE
\* main.go:136  the namespace filter
Accepted(k8sPod) == k8sPod.ns = TargetNamespace

\* main.go:148-155
BridgeMessage(eventType, k8sPod) ==
    [ Type     |-> eventType,
      ID       |-> k8sPod.uid,
      Name     |-> k8sPod.name,
      Status   |-> k8sPod.phase,
      HP       |-> 5,
      Position |-> PositionOf(k8sPod.name) ]

----------------------------------------------------------------------------
\* The map after wsClients[ws] = true (main.go:181) and after
\* delete(wsClients, ws) (main.go:168, 188): deleting an absent key changes nothing.
MapAssign(m, ws) == m \cup {ws}
MapDelete_Keep(m, ws) == m
MapDelete_Absent(m, ws) == IF ws \in m THEN m \ {ws} ELSE {}
MapDelete(m, ws) == m \ {ws}

\* The runtime's reaction to a detected race: the process dies, nothing else moves.

Die(reason) ==
    /\ fatal' = reason
    /\ UNCHANGED <<wsClients, inWrite, k8sClient, prodVars, published, hubVars,
                   pc, since, net, closed, wrote, failedIn, framesLeft, actVars>>

Running == fatal = ""

\* The range loop of handleMessages is between its first and its last iterator step.
Iterating == hubPc \in {"next", "write", "closed", "delete"}

----------------------------------------------------------------------------
\* Informer goroutine: main.go:116-129 call handleK8sEvent, main.go:135-158.

\* The event source has stopped producing: the informer has made its last
\* callback and the callback has returned.
SourceStopped == evLeft = 0 /\ prodPc = "idle"

handleK8sEvent_Buffered(eventType, k8sPod) ==
    /\ Running /\ k8sClient = "ok"
    /\ prodPc = "idle" /\ evLeft > 0
    /\ evLeft' = evLeft - 1
    /\ evlog' = Append(evlog, [kind |-> eventType, uid |-> k8sPod.uid, ns |-> k8sPod.ns])
    /\ prodPc' = "idle"
    /\ broadcast' = IF Accepted(k8sPod) THEN BridgeMessage(eventType, k8sPod)
                                       ELSE broadcast
    /\ UNCHANGED <<wsClients, inWrite, fatal, k8sClient, published, hubVars, pc, since,
                   net, closed, wrote, failedIn, framesLeft, actVars>>
handleK8sEvent(eventType, k8sPod) ==
    /\ Running /\ k8sClient = "ok"
    /\ prodPc = "idle" /\ evLeft > 0
    /\ evLeft' = evLeft - 1
    /\ evlog' = Append(evlog, [kind |-> eventType, uid |-> k8sPod.uid, ns |-> k8sPod.ns])
    /\ IF Accepted(k8sPod)
         THEN /\ prodPc' = "send"
              /\ broadcast' = BridgeMessage(eventType, k8sPod)
         ELSE /\ prodPc' = "idle"
              /\ broadcast' = broadcast
    /\ UNCHANGED <<wsClients, inWrite, fatal, k8sClient, published, hubVars, pc, since,
                   net, closed, wrote, failedIn, framesLeft, actVars>>

----------------------------------------------------------------------------
\* handleMessages: main.go:160-172.

Offered_Always == TRUE
\* main.go:157  a sender is blocked in broadcast <- msg: only then can the
\* receive at main.go:162 return (the channel is never closed).
Offered == prodPc = "send"

\* main.go:162  msg := <-broadcast (the channel is unbuffered: the send at
\* main.go:157 completes here), then the range loop starts.
HubRecv ==
    /\ Running /\ hubPc = "recv" /\ Offered
    /\ published' = Append(published, broadcast)
    /\ msg' = broadcast
    /\ prodPc' = "idle" /\ broadcast' = NoMsg
    /\ hubPc' = "next"
    /\ visited' = {} /\ addedDuring' = {}
    /\ regAtRecv' = wsClients
    /\ UNCHANGED <<wsClients, inWrite, fatal, k8sClient, evLeft, evlog, cur, pc, since,
                   net, closed, wrote, failedIn, framesLeft, actVars>>

\* The entries the range loop can still produce: every entry not yet produced.
Candidates == wsClients \ visited

\* main.go:163  one step of the iterator.  An entry present since the loop began
\* is produced exactly once unless deleted first; an entry added meanwhile may be
\* produced or skipped.
HubNext ==
    /\ Running /\ hubPc = "next"
    /\ \/ \E client \in Candidates :
            /\ cur' = client
            /\ visited' = visited \cup {client}
            /\ hubPc' = "write"
            /\ UNCHANGED <<wsClients, inWrite, fatal, k8sClient, prodVars, published,
                           msg, addedDuring, regAtRecv, pc, since, net, closed, wrote,
                           failedIn, framesLeft, actVars>>
       \/ /\ Candidates \subseteq addedDuring
          /\ hubPc' = "recv"
          /\ visited' = {} /\ addedDuring' = {}
          /\ UNCHANGED <<wsClients, inWrite, fatal, k8sClient, prodVars, published,
                         msg, cur, regAtRecv, pc, since, net, closed, wrote, failedIn,
                         framesLeft, actVars>>
       \/ /\ inWrite # {}
          /\ Die("concurrent map iteration and map write")

\* Outcome of client.WriteJSON(msg): main.go:164.
WriteJSON(client) ==
    IF closed[client] \/ net[client] = "down" THEN "error"
    ELSE IF net[client] = "stall" THEN "blocked"
    ELSE "ok"

\* main.go:164-167  the write; on error the log line and client.Close().
HubWrite ==
    /\ Running /\ hubPc = "write"
    /\ WriteJSON(cur) # "blocked"
    /\ IF WriteJSON(cur) = "ok"
         THEN /\ wrote' = [wrote EXCEPT ![cur] = Append(@, Len(published))]
              /\ hubPc' = "next"
              /\ cur' = NoClient
              /\ UNCHANGED <<closed, failedIn>>
         ELSE /\ closed' = [closed EXCEPT ![cur] = TRUE]
              /\ failedIn' = [failedIn EXCEPT ![cur] = Len(published)]
              /\ hubPc' = "closed"
              /\ UNCHANGED <<wrote, cur>>
    /\ UNCHANGED <<wsClients, inWrite, fatal, k8sClient, prodVars, published, msg,
                   visited, addedDuring, regAtRecv, pc, since, net, framesLeft, actVars>>

\* main.go:168  delete(wsClients, client) begins.
HubDeleteBegin ==
    /\ Running /\ hubPc = "closed"
    /\ \/ /\ inWrite' = inWrite \cup {Hub}
          /\ hubPc' = "delete"
          /\ UNCHANGED <<wsClients, fatal, k8sClient, prodVars, published, msg, cur,
                         visited, addedDuring, regAtRecv, pc, since, net, closed, wrote,
                         failedIn, framesLeft, actVars>>
       \/ /\ inWrite # {}
          /\ Die("concurrent map writes")

\* main.go:168  delete(wsClients, client) ends.
HubDeleteEnd ==
    /\ Running /\ hubPc = "delete"
    /\ \/ /\ wsClients' = MapDelete(wsClients, cur)
          /\ inWrite' = inWrite \ {Hub}
          /\ hubPc' = "next"
          /\ cur' = NoClient
          /\ UNCHANGED <<fatal, k8sClient, prodVars, published, msg, visited,
                         addedDuring, regAtRecv, pc, since, net, closed, wrote, failedIn,
                         framesLeft, actVars>>
       \/ /\ inWrite \ {Hub} # {}
          /\ Die("concurrent map writes")

----------------------------------------------------------------------------
\* handleWebSocket: main.go:174-200.  pc of a session: "idle" (no request yet),
\* "refused" (upgrade failed), "upgraded", "registering" (inside the map write
\* of main.go:181), "read" (blocked in ReadJSON), "deregistering" (inside the
\* map write of main.go:188), "done" (handler returned).

Upgrade_Again(s) ==
    /\ Running /\ pc[s] \in {"idle", "done"}
    /\ pc' = [pc EXCEPT ![s] = "upgraded"]
    /\ UNCHANGED <<since, wsClients, inWrite, fatal, k8sClient, prodVars, published,
                   hubVars, net, closed, wrote, failedIn, framesLeft, actVars>>
\* main.go:175-179
Upgrade(s) ==
    /\ Running /\ pc[s] = "idle"
    /\ \/ pc' = [pc EXCEPT ![s] = "upgraded"]
       \/ pc' = [pc EXCEPT ![s] = "refused"]
    /\ UNCHANGED <<since, wsClients, inWrite, fatal, k8sClient, prodVars, published,
                   hubVars, net, closed, wrote, failedIn, framesLeft, actVars>>

\* main.go:181  wsClients[ws] = true begins.
RegisterBegin(s) ==
    /\ Running /\ pc[s] = "upgraded"
    /\ \/ /\ inWrite' = inWrite \cup {s}
          /\ pc' = [pc EXCEPT ![s] = "registering"]
          /\ UNCHANGED <<since, wsClients, fatal, k8sClient, prodVars, published, hubVars,
                         net, closed, wrote, failedIn, framesLeft, actVars>>
       \/ /\ inWrite # {}
          /\ Die("concurrent map writes")

\* main.go:181  wsClients[ws] = true ends; the handler goes on to ReadJSON.
RegisterEnd(s) ==
    /\ Running /\ pc[s] = "registering"
    /\ \/ /\ wsClients' = MapAssign(wsClients, s)
          /\ inWrite' = inWrite \ {s}
          /\ addedDuring' = IF Iterating THEN addedDuring \cup {s} ELSE addedDuring
          /\ pc' = [pc EXCEPT ![s] = "read"]
          /\ since' = [since EXCEPT ![s] = Len(published)]
          /\ UNCHANGED <<fatal, k8sClient, prodVars, published, hubPc, msg, cur,
                         visited, regAtRecv, net, closed, wrote, failedIn,
                         framesLeft, actVars>>
       \/ /\ inWrite \ {s} # {}
          /\ Die("concurrent map writes")

\* Inbound frames a peer can send: the decoded IncomingMessage (main.go:46-49).
Commands ==
    { [Action |-> "kill",   PodID |-> "u1"],
      [Action |-> "kill",   PodID |-> "u9"],
      [Action |-> "kill",   PodID |-> ""],
      [Action |-> "create", PodID |-> ""],
      [Action |-> "scale",  PodID |-> "u1"] }

Dispatch_EmptyKill(m) ==
    IF m.Action = "kill" THEN <<[kind |-> "delete", uid |-> m.PodID]>>
    ELSE IF m.Action = "create" THEN <<[kind |-> "create", uid |-> ""]>>
    ELSE <<>>
\* main.go:192-198  the goroutines a decoded message starts.
Dispatch(m) ==
    IF m.Action = "kill" /\ m.PodID # "" THEN <<[kind |-> "delete", uid |-> m.PodID]>>
    ELSE IF m.Action = "create" THEN <<[kind |-> "create", uid |-> ""]>>
    ELSE <<>>

NewCall(c, s, frame) ==
    [kind |-> c.kind, uid |-> c.uid, by |-> s, frame |-> frame, pc |-> "start",
     podName |-> <<>>, items |-> {}, result |-> "none"]

Readable_AfterCalls(s) ==
    /\ ~closed[s] /\ net[s] # "down"
    /\ \A i \in 1..Len(calls) : calls[i].by = s => calls[i].pc = "done"
\* ReadJSON can return a frame: the connection is open and the peer reachable.
Readable(s) == ~closed[s] /\ net[s] # "down"

\* main.go:186, 192-198  ReadJSON decodes a frame; the command is dispatched and
\* the loop reads again.
ReadCommand(s, m) ==
    /\ Running /\ pc[s] = "read" /\ Readable(s) /\ framesLeft > 0
    /\ framesLeft' = framesLeft - 1
    /\ frames' = Append(frames, [by |-> s, m |-> m, late |-> SourceStopped])
    /\ calls' = calls \o [i \in 1..Len(Dispatch(m)) |->
                            NewCall(Dispatch(m)[i], s, Len(frames) + 1)]
    /\ UNCHANGED <<wsClients, inWrite, fatal, k8sClient, prodVars, published,
                   hubVars, pc, since, net, closed, wrote, failedIn, pods, mutations,
                   logs, now, envLeft>>

\* main.go:186-188  ReadJSON returns an error and delete(wsClients, ws) begins.
\* The error is there when the connection is closed or broken, and otherwise
\* as soon as the peer sends a frame that does not decode.
ReadFail(s) ==
    /\ Running /\ pc[s] = "read"
    /\ \/ /\ inWrite' = inWrite \cup {s}
          /\ pc' = [pc EXCEPT ![s] = "deregistering"]
          /\ UNCHANGED <<since, wsClients, fatal, k8sClient, prodVars, published,
                         hubVars, net, closed, wrote, failedIn, framesLeft, actVars>>
       \/ /\ inWrite # {}
          /\ Die("concurrent map writes")

\* main.go:188-189  delete(wsClients, ws) ends, break; the handler returns.
\* Nothing closes ws on this path.
DeregisterEnd(s) ==
    /\ Running /\ pc[s] = "deregistering"
    /\ \/ /\ wsClients' = MapDelete(wsClients, s)
          /\ inWrite' = inWrite \ {s}
          /\ pc' = [pc EXCEPT ![s] = "done"]
          /\ UNCHANGED <<since, fatal, k8sClient, prodVars, published, hubVars, net, closed,
                         wrote, failedIn, framesLeft, actVars>>
       \/ /\ inWrite \ {s} # {}
          /\ Die("concurrent map writes")

\* The peer of an upgraded connection goes away, or stops reading.
Connected(s) == pc[s] \notin {"idle", "refused"}

NetDown(s) ==
    /\ Running /\ Connected(s) /\ ~closed[s] /\ net[s] # "down"
    /\ net' = [net EXCEPT ![s] = "down"]
    /\ UNCHANGED <<wsClients, inWrite, fatal, k8sClient, prodVars, published,
                   hubVars, pc, since, closed, wrote, failedIn, framesLeft, actVars>>

NetStall(s) ==
    /\ Running /\ Connected(s) /\ ~closed[s] /\ net[s] = "up"
    /\ net' = [net EXCEPT ![s] = "stall"]
    /\ UNCHANGED <<wsClients, inWrite, fatal, k8sClient, prodVars, published,
                   hubVars, pc, since, closed, wrote, failedIn, framesLeft, actVars>>

----------------------------------------------------------------------------
\* Actuator: deletePod main.go:202-223, createPod main.go:225-242.

RECURSIVE SetToSeq(_)
SetToSeq(S) ==
    IF S = {} THEN <<>>
    ELSE LET x == CHOOSE y \in S : TRUE IN <<x>> \o SetToSeq(S \ {x})

FindPodName_First(items, uid) ==
    IF items = <<>> THEN <<>> ELSE Head(items).name
\* main.go:209-215  the first item whose UID is uid gives podName.
RECURSIVE FindPodName(_, _)
FindPodName(items, uid) ==
    IF items = <<>> THEN <<>>
    ELSE IF Head(items).uid = uid THEN Head(items).name
    ELSE FindPodName(Tail(items), uid)

\* "nginx-"
NginxPrefix == <<110, 103, 105, 110, 120, 45>>

Digits2(n) == <<48 + (n \div 10), 48 + (n % 10)>>

\* time.Now().Format("150405"): hour, minute, second, two digits each.
Format150405(t) ==
    Digits2((t \div 3600) % 24) \o Digits2((t \div 60) % 60) \o Digits2(t % 60)

\* uids the backend gives to pods created by call i, and by others.
CallUid(i) == <<"c1", "c2", "c3", "c4", "c5">>[i]
EnvUid(k)  == <<"e1", "e2", "e3", "e4">>[k]

SetCall(i, r) == [calls EXCEPT ![i] = r]

\* main.go:203-222  the listing and the search for uid.
deletePodList(i) ==
    /\ Running /\ i \in 1..Len(calls)
    /\ calls[i].kind = "delete" /\ calls[i].pc = "start"
    /\ \/ /\ k8sClient = "nil"
          /\ Die("nil pointer dereference")
       \/ /\ k8sClient = "ok"
          /\ calls' = SetCall(i, [calls[i] EXCEPT !.pc = "done", !.result = "list failed"])
          /\ logs' = logs \cup {[call |-> i, line |-> "Failed to list pods"]}
          /\ UNCHANGED <<wsClients, inWrite, fatal, k8sClient, prodVars, published,
                         hubVars, pc, since, net, closed, wrote, failedIn, framesLeft,
                         frames, pods, mutations, now, envLeft>>
       \/ /\ k8sClient = "ok"
          /\ LET podName == FindPodName(SetToSeq(pods), calls[i].uid)
             IN  IF podName # <<>>
                   THEN /\ calls' = SetCall(i, [calls[i] EXCEPT !.pc = "found",
                                       !.podName = podName, !.items = pods])
                        /\ logs' = logs
                   ELSE /\ calls' = SetCall(i, [calls[i] EXCEPT !.pc = "done",
                                       !.items = pods, !.result = "not found"])
                        /\ logs' = logs \cup {[call |-> i, line |-> "not found"]}
          /\ UNCHANGED <<wsClients, inWrite, fatal, k8sClient, prodVars, published,
                         hubVars, pc, since, net, closed, wrote, failedIn, framesLeft,
                         frames, pods, mutations, now, envLeft>>

\* main.go:218-219  Delete by name; its error is dropped and the log line says
\* "Deleted Pod" in both cases.
deletePodDelete(i) ==
    /\ Running /\ i \in 1..Len(calls)
    /\ calls[i].kind = "delete" /\ calls[i].pc = "found"
    /\ mutations' = Append(mutations,
            [op |-> "delete", name |-> calls[i].podName, call |-> i,
             hit |-> {p.uid : p \in {q \in pods : q.name = calls[i].podName}}])
    /\ logs' = logs \cup {[call |-> i, line |-> "Deleted Pod"]}
    /\ \/ /\ pods' = {p \in pods : p.name # calls[i].podName}
          /\ calls' = SetCall(i, [calls[i] EXCEPT !.pc = "done",
                        !.result = IF pods' = pods THEN "delete failed" ELSE "deleted"])
       \/ /\ pods' = pods
          /\ calls' = SetCall(i, [calls[i] EXCEPT !.pc = "done", !.result = "delete failed"])
    /\ UNCHANGED <<wsClients, inWrite, fatal, k8sClient, prodVars, published,
                   hubVars, pc, since, net, closed, wrote, failedIn, framesLeft, frames,
                   now, envLeft>>

\* main.go:226  the generated name
GeneratedName(t) == NginxPrefix \o Format150405(t)

\* main.go:225-241
createPod(i) ==
    /\ Running /\ i \in 1..Len(calls)
    /\ calls[i].kind = "create" /\ calls[i].pc = "start"
    /\ \/ /\ k8sClient = "nil"
          /\ Die("nil pointer dereference")
       \/ /\ k8sClient = "ok"
          /\ LET podName == GeneratedName(now) IN
             /\ mutations' = Append(mutations,
                    [op |-> "create", name |-> podName, call |-> i, hit |-> {}])
             /\ \/ /\ \A p \in pods : p.name # podName
                   /\ pods' = pods \cup {[uid |-> CallUid(i), name |-> podName]}
                   /\ calls' = SetCall(i, [calls[i] EXCEPT !.pc = "done",
                                   !.podName = podName, !.result = "created"])
                   /\ logs' = logs
                \/ /\ pods' = pods
                   /\ calls' = SetCall(i, [calls[i] EXCEPT !.pc = "done",
                                   !.podName = podName, !.result = "create failed"])
                   /\ logs' = logs \cup {[call |-> i, line |-> "Failed to create pod"]}
          /\ UNCHANGED <<wsClients, inWrite, fatal, k8sClient, prodVars, published,
                         hubVars, pc, since, net, closed, wrote, failedIn, framesLeft,
                         frames, now, envLeft>>

\* The clock advances.
Tick ==
    /\ Running /\ now < MaxClock
    /\ now' = now + 1
    /\ UNCHANGED <<wsClients, inWrite, fatal, k8sClient, prodVars, published,
                   hubVars, pc, since, net, closed, wrote, failedIn, framesLeft, frames,
                   calls, pods, mutations, logs, envLeft>>

\* Someone else changes the backend: a pod is deleted, or deleted and created
\* again under the same name (a new uid).
BackendChange(p) ==
    /\ Running /\ envLeft > 0 /\ p \in pods
    /\ envLeft' = envLeft - 1
    /\ \/ pods' = pods \ {p}
       \/ pods' = (pods \ {p}) \cup {[uid |-> EnvUid(MaxEnv + 1 - envLeft), name |-> p.name]}
    /\ UNCHANGED <<wsClients, inWrite, fatal, k8sClient, prodVars, published,
                   hubVars, pc, since, net, closed, wrote, failedIn, framesLeft, frames,
                   calls, mutations, logs, now>>

----------------------------------------------------------------------------
\* The program after main has started its goroutines (main.go:51-80).

InitialPods == { [uid |-> "u1", name |-> <<119, 45, 49>>] }

Started ==
    /\ wsClients = {} /\ inWrite = {} /\ fatal = ""
    /\ k8sClient \in {"ok", "nil"}
    /\ prodPc = "idle" /\ broadcast = NoMsg /\ evlog = <<>>
    /\ published = <<>>
    /\ hubPc = "recv" /\ msg = NoMsg /\ cur = NoClient
    /\ visited = {} /\ addedDuring = {} /\ regAtRecv = {}
    /\ pc = [s \in Sessions |-> "idle"]
    /\ net = [s \in Sessions |-> "up"]
    /\ closed = [s \in Sessions |-> FALSE]
    /\ wrote = [s \in Sessions |-> <<>>]
    /\ failedIn = [s \in Sessions |-> 0]
    /\ since = [s \in Sessions |-> -1]
    /\ framesLeft = MaxFrames /\ frames = <<>>
    /\ calls = <<>> /\ pods = InitialPods /\ mutations = <<>> /\ logs = {}
    /\ now = 0 /\ envLeft = MaxEnv

Init ==
    /\ Started
    /\ evLeft = MaxEvents

\* The delivery side: the informer, the broadcast loop, and the sessions'
\* registration and teardown; the peers send no well-formed command.
Next ==
    \/ \E e \in EventTypes, p \in WatchedPods : handleK8sEvent(e, p)
    \/ HubRecv \/ HubNext \/ HubWrite \/ HubDeleteBegin \/ HubDeleteEnd
    \/ \E s \in Sessions :
         \/ Upgrade(s) \/ RegisterBegin(s) \/ RegisterEnd(s)
         \/ ReadFail(s) \/ DeregisterEnd(s)
         \/ NetDown(s) \/ NetStall(s)

Spec == Init /\ [][Next]_vars

\* The event side alone: the informer reports pods of every name and namespace
\* and no client is connected, so the loop of handleMessages ranges over an
\* empty map.
NextNorm ==
    \/ \E e \in EventTypes, p \in NamedPods : handleK8sEvent(e, p)
    \/ HubRecv \/ HubNext

SpecNorm == Init /\ [][NextNorm]_vars

\* The command side: one session's reader and the actuator goroutines it
\* starts, with the backend changing underneath; the informer reports nothing.
CmdSessions == {"s1"}

InitCmd ==
    /\ Started
    /\ evLeft = 0

NextCmd ==
    \/ \E s \in CmdSessions :
         \/ Upgrade(s) \/ RegisterBegin(s) \/ RegisterEnd(s)
         \/ ReadFail(s) \/ DeregisterEnd(s)
         \/ NetDown(s)
         \/ \E m \in Commands : ReadCommand(s, m)
    \/ \E i \in 1..MaxFrames : deletePodList(i) \/ deletePodDelete(i) \/ createPod(i)
    \/ Tick
    \/ \E p \in pods : BackendChange(p)

SpecCmd == InitCmd /\ [][NextCmd]_vars

\* The commands of the client of SpecStop: one that is dispatched and one that
\* is ignored.
StopCommands == {m \in Commands : m.PodID = "u1"}

\* One client that also sends commands, with the informer (reporting
\* modifications) and the broadcast loop running; the goroutines a command
\* starts are not scheduled here.
NextStop ==
    \/ \E p \in WatchedPods : handleK8sEvent("MODIFIED", p)
    \/ HubRecv \/ HubNext \/ HubWrite \/ HubDeleteBegin \/ HubDeleteEnd
    \/ \E s \in CmdSessions :
         \/ Upgrade(s) \/ RegisterBegin(s) \/ RegisterEnd(s)
         \/ ReadFail(s) \/ DeregisterEnd(s)
         \/ NetDown(s)
         \/ \E m \in StopCommands : ReadCommand(s, m)

SpecStop == Init /\ [][NextStop]_vars

----------------------------------------------------------------------------
\* Properties.

\* Session s has not failed: its handler is reading and its peer is reachable.
Healthy(s) ==
    pc[s] = "read" /\ net[s] = "up" /\ ~closed[s] /\ failedIn[s] = 0

\* Message number n was written to session s.
Got(s, n) == \E i \in 1..Len(wrote[s]) : wrote[s][i] = n

\* The fan-out of the last message received is over: the loop is back at the
\* receive, or the process died.
CycleOver == hubPc = "recv" \/ fatal # ""

\* C1: once the fan-out of the N-th published message is over, every session
\* that was registered before the first message was dequeued and whose reads
\* and writes have not failed has been written all N messages, in publish order.
C1_AllMessagesInOrder ==
    CycleOver =>
        \A s \in Sessions :
            (since[s] = 0 /\ Healthy(s)) =>
                wrote[s] = [i \in 1..Len(published) |-> i]

\* C2: a session whose write failed is closed and out of the registry whenever
\* the loop is at its receive, and the loop never again is about to write to it.
C2_FailedSessionDropped ==
    /\ hubPc = "recv" =>
          \A s \in Sessions : failedIn[s] # 0 => (closed[s] /\ s \notin wsClients)
    /\ hubPc = "write" => failedIn[cur] = 0

\* C2's case: a session's write failed in one cycle and a later cycle has run.
C2_Witness ==
    \E s \in Sessions :
        /\ failedIn[s] # 0 /\ failedIn[s] < Len(published)
        /\ hubPc = "recv"
        /\ \E t \in Sessions : Got(t, Len(published))

\* C3: when the write of message M to one session failed, every other session
\* that was registered when M was dequeued and has not failed has been written
\* M once the fan-out of M is over.
C3_OtherSessionStillGetsM ==
    CycleOver =>
        \A s, t \in Sessions :
            ( /\ s # t
              /\ Len(published) > 0 /\ failedIn[s] = Len(published)
              /\ t \in regAtRecv /\ Healthy(t) )
            => Got(t, Len(published))

\* C4: when the loop is blocked in a write that does not return, every other
\* session that was registered when the message was dequeued and has not failed
\* has already been written the message.
C4_SlowSessionDoesNotBlockOthers ==
    (Running /\ hubPc = "write" /\ WriteJSON(cur) = "blocked") =>
        \A t \in Sessions \ {cur} :
            (t \in regAtRecv /\ Healthy(t)) => Got(t, Len(published))

\* C5: no task is inside a write of the registry while another task writes it
\* or the delivery loop ranges over it.
C5_RegistryMutualExclusion ==
    \A t \in inWrite :
        /\ inWrite = {t}
        /\ t # Hub => ~Iterating

\* The messages built so far: those received by the loop and the one being sent.
Produced == published \o (IF prodPc = "send" THEN <<broadcast>> ELSE <<>>)

\* The callbacks invoked for pods of the target namespace.
TargetEvents == SelectSeq(evlog, LAMBDA e : e.ns = "default")

\* C6: the messages built are, in order, one per event of namespace "default",
\* each with the kind of its callback, which is ADDED, MODIFIED or DELETED;
\* events of other namespaces build none.
C6_OneMessagePerTargetEvent ==
    /\ Len(Produced) = Len(TargetEvents)
    /\ \A i \in 1..Len(Produced) :
          /\ Produced[i].Type = TargetEvents[i].kind
          /\ Produced[i].Type \in {"ADDED", "MODIFIED", "DELETED"}

\* C6's case: an event of another namespace and an event of "default" have both
\* been handled, and the message of the latter was received by the loop.
C6_Witness ==
    /\ \E i \in 1..Len(evlog) : evlog[i].ns # "default"
    /\ \E i \in 1..Len(evlog) : evlog[i].ns = "default"
    /\ Len(published) = 1

\* The sum of the character codes of name.
CodeSum(name) ==
    LET part[i \in 0..Len(name)] == IF i = 0 THEN 0 ELSE part[i - 1] + name[i]
    IN  part[Len(name)]

\* C7: every message built has hp 5 and position
\* [(hash mod 10) - 5, 0, ((hash div 10) mod 10) - 5] for hash the sum of the
\* character codes of its name; x and z lie in -5..4, and messages of the same
\* name have the same position.
C7_PositionFromName ==
    \A i \in 1..Len(Produced) :
        LET m == Produced[i]
            hash == CodeSum(m.Name)
        IN  /\ m.Position = << (hash % 10) - 5, 0, ((hash \div 10) % 10) - 5 >>
            /\ m.HP = 5
            /\ m.Position[1] \in -5..4 /\ m.Position[3] \in -5..4
            /\ \A j \in 1..Len(Produced) :
                  Produced[j].Name = m.Name => Produced[j].Position = m.Position

\* C7's case: two messages of one name of several characters, and of two kinds.
C7_Witness ==
    /\ Len(Produced) >= 2
    /\ Produced[1].Name = Produced[2].Name
    /\ Len(Produced[1].Name) >= 2
    /\ Produced[1].Name[1] # Produced[1].Name[2]
    /\ Produced[1].Type # Produced[2].Type

\* The goroutines started for the f-th decoded frame.
CallsOf(f) == {i \in 1..Len(calls) : calls[i].frame = f}

\* A decoded frame that starts nothing.
Ignored(m) == ~(m.Action = "kill" /\ m.PodID # "") /\ m.Action # "create"

\* The goroutines started for each decoded frame are those its command asks for.
C8_Dispatched ==
    \A f \in 1..Len(frames) :
        LET m == frames[f].m
            started == CallsOf(f)
        IN  IF m.Action = "kill" /\ m.PodID # ""
              THEN /\ Cardinality(started) = 1
                   /\ \A i \in started :
                         calls[i].kind = "delete" /\ calls[i].uid = m.PodID
            ELSE IF m.Action = "create"
              THEN /\ Cardinality(started) = 1
                   /\ \A i \in started : calls[i].kind = "create"
            ELSE started = {}

\* A step that decodes an ignored frame starts nothing and leaves the session
\* registered and reading.
C8_IgnoredKeepsReading ==
    Len(frames') > Len(frames) =>
        LET fr == frames'[Len(frames')]
        IN  Ignored(fr.m) =>
              /\ pc'[fr.by] = "read" /\ fr.by \in wsClients'
              /\ calls' = calls

\* C8: each decoded frame starts exactly one deletePod(PodID) when it is a kill
\* with a non-empty PodID, exactly one createPod when it is a create, and
\* nothing otherwise; decoding an ignored frame leaves the session registered
\* and reading.
C8_DispatchPerCommand ==
    []C8_Dispatched /\ [][C8_IgnoredKeepsReading]_vars

\* C8's case: one session has sent a kill that started a call and then a frame
\* that was ignored, and is still registered and reading.
C8_Witness ==
    /\ Len(frames) = 2
    /\ ~Ignored(frames[1].m) /\ frames[1].m.Action = "kill"
    /\ Ignored(frames[2].m)
    /\ Len(calls) = 1
    /\ pc[frames[2].by] = "read" /\ frames[2].by \in wsClients

\* The mutating calls issued by goroutine i.
MutationsOf(i) == SelectSeq(mutations, LAMBDA x : x.call = i)

\* C9: a deletePod whose listing holds no pod of the wanted uid issues no
\* mutating call; one whose listing holds such a pod issues, by the time it
\* returns, exactly one call, a delete by the name of that pod.
C9_DeleteByIdentity ==
    \A i \in 1..Len(calls) :
        (calls[i].kind = "delete" /\ calls[i].pc # "start"
            /\ calls[i].result # "list failed") =>
        LET matches == {p \in calls[i].items : p.uid = calls[i].uid}
            issued == MutationsOf(i)
        IN  /\ matches = {} => issued = <<>>
            /\ \A p \in matches :
                  /\ calls[i].pc = "found" => issued = <<>>
                  /\ calls[i].pc = "done" =>
                        /\ Len(issued) = 1
                        /\ issued[1].op = "delete"
                        /\ issued[1].name = p.name

\* C9's case: one deletePod found its pod and deleted it by name, and another
\* found no pod of its uid and returned.
C9_Witness ==
    \E i, j \in 1..Len(calls) :
        /\ calls[i].kind = "delete" /\ calls[i].result = "deleted"
        /\ calls[j].kind = "delete" /\ calls[j].result = "not found"
        /\ calls[j].items # {}

\* C10: a session whose handler has returned after a read failure is out of the
\* registry and its connection is closed.
C10_ReadFailureEndsSession ==
    \A s \in Sessions :
        pc[s] = "done" => (s \notin wsClients /\ closed[s])

\* The log lines of goroutine i.
LinesOf(i) == {l.line : l \in {x \in logs : x.call = i}}

\* C11: a deletePod whose listing failed has logged the failure and issued no
\* delete; one whose delete failed has logged a failure and has not logged a
\* deletion; and nothing of either is written to a session.
C11_ActuatorErrorsLogged ==
    /\ \A s \in Sessions : wrote[s] = <<>>
    /\ \A i \in 1..Len(calls) :
          /\ calls[i].result = "list failed" =>
                /\ "Failed to list pods" \in LinesOf(i)
                /\ MutationsOf(i) = <<>>
          /\ calls[i].result = "delete failed" =>
                /\ "Deleted Pod" \notin LinesOf(i)
                /\ LinesOf(i) # {}

\* C18: a deletePod that deleted something deleted no pod of another uid than
\* the one it was started for.
C18_DeletesOnlyItsIdentity ==
    \A k \in 1..Len(mutations) :
        LET x == mutations[k]
        IN  (x.op = "delete" /\ calls[x.call].result = "deleted") =>
                x.hit \subseteq {calls[x.call].uid}

InFlight(i) == calls[i].pc # "done"

\* A reader whose connection can deliver a frame can decode it, whatever its
\* earlier goroutines are doing.
C16_ReaderDoesNotWait ==
    \A s \in CmdSessions :
        (Running /\ pc[s] = "read" /\ ~closed[s] /\ net[s] # "down" /\ framesLeft > 0)
            => \A m \in Commands : ENABLED ReadCommand(s, m)

\* A goroutine that has not returned can take its next step, whatever the
\* session that started it is doing.
C16_CallsKeepRunning ==
    \A i \in 1..Len(calls) :
        (Running /\ InFlight(i))
            => ENABLED (deletePodList(i) \/ deletePodDelete(i) \/ createPod(i))

\* No step of a session (one that moves its handler) changes or removes a
\* goroutine already started.
C16_CallsNotCancelled ==
    \A i \in 1..Len(calls) :
        /\ i <= Len(calls')
        /\ calls'[i] # calls[i] => pc' = pc

\* C16: dispatch is fire-and-forget: the reader can read the next frame while
\* the goroutines it started are in flight, and the end of a session neither
\* cancels its goroutines nor waits for them.
C16_FireAndForget ==
    /\ [](C16_ReaderDoesNotWait /\ C16_CallsKeepRunning)
    /\ [][C16_CallsNotCancelled]_vars

\* C16: session s1 has ended while two goroutines it started are in flight.
C16_Witness ==
    /\ pc["s1"] = "done"
    /\ \E i, j \in 1..Len(calls) :
          /\ i # j
          /\ calls[i].by = "s1" /\ calls[j].by = "s1"
          /\ InFlight(i) /\ InFlight(j)

\* C17 as stated: a publish never waits for the loop -- the callback is never
\* inside its send while the loop is busy with an earlier message.
C17_PublishNeverWaits ==
    ~(prodPc = "send" /\ hubPc # "recv")

\* C17: the channel has no buffer, so a publish completes exactly when the loop
\* receives the message: a callback that has returned has had its message
\* received, and while a callback is inside its send exactly one message
\* (its own) is not yet received.
C17_PublishCompletesAtReceive ==
    /\ prodPc = "idle" => /\ Len(published) = Len(TargetEvents)
                          /\ broadcast = NoMsg
    /\ prodPc = "send" => /\ Len(published) + 1 = Len(TargetEvents)
                          /\ broadcast # NoMsg

\* C17: a callback is blocked in its send while the loop fans out an earlier
\* message.
C17_Witness ==
    /\ prodPc = "send" /\ hubPc # "recv"
    /\ Len(published) >= 1

\* The numbers in seq are strictly increasing.
Increasing(seq) == \A i, j \in 1..Len(seq) : i < j => seq[i] < seq[j]

\* C20: every message written to a session was published before and is written
\* to it at most once, and a message received from the channel before the
\* session registered (numbers up to since[s]) is never written to it.
C20_NoReplay ==
    \A s \in Sessions :
        /\ \A i \in 1..Len(wrote[s]) :
              /\ wrote[s][i] \in 1..Len(published)
              /\ wrote[s][i] > since[s]
        /\ Increasing(wrote[s])

\* The step ends a delete(wsClients, x): the loop's (main.go:168) or the
\* reader's (main.go:188).
EndsDeleteOf(x) ==
    \/ hubPc = "delete" /\ hubPc' = "next" /\ cur = x
    \/ pc[x] = "deregistering" /\ pc'[x] = "done"

\* C12: every completed removal of a session leaves it out of the registry and
\* leaves the entry of every other session as it was; a removal of a session
\* already out of the registry (the second of the two) changes nothing.
C12_DeregisterIdempotent ==
    [][\A x \in Sessions :
          EndsDeleteOf(x) =>
              /\ x \notin wsClients'
              /\ \A t \in Sessions \ {x} : (t \in wsClients') <=> (t \in wsClients)
              /\ x \notin wsClients => wsClients' = wsClients]_vars

\* C12: the loop (after a failed write) and the reader have both removed
\* session s, and another session is registered.
C12_Witness ==
    \E s \in Sessions :
        /\ failedIn[s] # 0 /\ pc[s] = "done"
        /\ hubPc \in {"recv", "next"}
        /\ s \notin wsClients
        /\ wsClients # {}

\* Session s has been deregistered: its handler has returned, or the loop has
\* finished the delete that follows its failed write.
Deregistered(s) ==
    \/ pc[s] = "done"
    \/ failedIn[s] # 0 /\ ~(hubPc \in {"closed", "delete"} /\ cur = s)

\* A step puts s into the registry only as the map write of its handler after
\* the upgrade, and only if s was never registered before.
AddedOnlyOnce ==
    \A s \in Sessions :
        (s \notin wsClients /\ s \in wsClients') =>
            (pc[s] = "registering" /\ pc'[s] = "read" /\ since[s] = -1)

\* C13: a session enters the registry at most once, by the map write that
\* follows its upgrade, and in every state after its deregistration (by its
\* reader or by the loop) it is out of the registry.
C13_RegisteredAtMostOnce ==
    /\ [](\A s \in Sessions : Deregistered(s) => s \notin wsClients)
    /\ [][AddedOnlyOnce]_vars

\* C13: a session was registered, its reader has deregistered it, and a message
\* published after its registration has been fanned out.
C13_Witness ==
    \E s \in Sessions :
        /\ since[s] >= 0 /\ pc[s] = "done" /\ failedIn[s] = 0
        /\ Len(published) > since[s]
        /\ hubPc = "recv"

\* The loop has attempted to write message n to session s: the write succeeded
\* or failed.
Attempted(s, n) == Got(s, n) \/ failedIn[s] = n

\* C14: once the fan-out of a message is over, every session that was in the
\* registry when the message was received from the channel, and whose handler
\* is still reading, has had a write of that message attempted.
C14_RegisteredBeforeDequeueIsServed ==
    (CycleOver /\ Len(published) > 0) =>
        \A s \in regAtRecv :
            pc[s] = "read" => Attempted(s, Len(published))

\* What a step taken after the stop can do: the loop receives nothing more, and
\* once back at its receive it stays there and writes to (and closes) no
\* session; a session leaves the registry only after its own read or write
\* failed; a frame decoded starts the goroutines of its command and the
\* handler keeps reading.
AfterStop ==
    SourceStopped =>
        /\ published' = published
        /\ hubPc = "recv" => (hubPc' = "recv" /\ wrote' = wrote /\ closed' = closed)
        /\ \A s \in wsClients :
              s \notin wsClients' => (pc[s] = "deregistering" \/ failedIn[s] # 0)
        /\ Len(frames') > Len(frames) =>
              LET f == frames'[Len(frames')]
              IN  /\ Len(calls') = Len(calls) + Len(Dispatch(f.m))
                  /\ pc'[f.by] = "read"

\* After the stop a registered session whose connection can deliver a frame can
\* still have each command decoded.
CommandsStillRead ==
    \A s \in CmdSessions :
        ( /\ SourceStopped /\ Running /\ s \in wsClients /\ pc[s] = "read"
          /\ ~closed[s] /\ net[s] # "down" /\ framesLeft > 0 )
            => \A m \in StopCommands : ENABLED ReadCommand(s, m)

\* C15: after the event source has stopped producing, no message beyond those
\* already published is written to any session, the stop removes no session
\* from the registry (a session stays until its own read or write fails), and
\* the commands of registered sessions are still dispatched.
C15_StopLeavesSessions ==
    /\ [][AfterStop]_vars
    /\ []CommandsStillRead

\* C15: the source produced and stopped, the loop is back at its receive, the
\* session was written a message and is still registered, and a command it
\* sent after the stop was dispatched.
C15_Witness ==
    /\ SourceStopped /\ hubPc = "recv" /\ Len(published) >= 1
    /\ \E s \in CmdSessions :
          /\ s \in wsClients /\ pc[s] = "read" /\ wrote[s] # <<>>
          /\ \E i \in 1..Len(calls) :
                LET f == frames[calls[i].frame]
                IN  calls[i].by = s /\ f.late

====
